---- MODULE Spec2Model ----
(***************************************************************************)
(* A model of cwac.py, the entry point of the Centralised Web              *)
(* Accessibility Checker: the target loader (import_base_urls with         *)
(* should_skip_row, lowercase_url and shuffle_queue), the worker           *)
(* (CWAC.thread), the pool supervisor (spawn_threads) and the run driver   *)
(* (CWAC.__init__).                                                        *)
(*                                                                         *)
(* Strings are sequences of one-character strings, so that substring       *)
(* tests, strip() and the URL parser act on characters as the code does.   *)
(* Browser, Crawler, Analytics and src.verify are collaborators whose      *)
(* code is not part of cwac.py; they are modelled by their contract.       *)
(***************************************************************************)
EXTENDS Integers, Sequences, FiniteSets, TLC

\* ------------------------------------------------------------------ bounds
\* Largest config.thread_count explored.
MaxThreads == 3
\* Largest number of data rows read over all list files of one run.
MaxRows == 3
\* Largest number of directory entries os.listdir returns.
MaxFiles == 2
\* Largest configured config.max_links_per_domain explored.
MaxLinks == 2

\* ------------------------------------------------------------- characters
UpperChars == {"A", "B", "H", "N", "P", "T", "Z"}

LowerOf == [c \in UpperChars |->
              CASE c = "A" -> "a" [] c = "B" -> "b" [] c = "H" -> "h"
                [] c = "N" -> "n" [] c = "P" -> "p" [] c = "T" -> "t"
                [] c = "Z" -> "z"]

\* str.lower() on one character
LowerChar(c) == IF c \in UpperChars THEN LowerOf[c] ELSE c

\* str.lower()
Lower(s) == [i \in 1..Len(s) |-> LowerChar(s[i])]

\* characters urlsplit accepts inside a scheme (letters, digits, "+-.")
SchemeChars == UpperChars \cup {"a", "b", "h", "n", "p", "t", "z", "."}

Letters == UpperChars \cup {"a", "b", "h", "n", "p", "t", "z"}

\* Python's `t in s` on strings: t occurs in s as a contiguous substring
Contains(s, t) ==
    \E i \in 0..(Len(s) - Len(t)) : SubSeq(s, i + 1, i + Len(t)) = t

\* index (1-based) of the first character of s that lies in cs, or 0
RECURSIVE FindFrom(_, _, _)
FindFrom(s, cs, i) ==
    IF i > Len(s) THEN 0
    ELSE IF s[i] \in cs THEN i
    ELSE FindFrom(s, cs, i + 1)

Find(s, cs) == FindFrom(s, cs, 1)

\* str.strip(): drops leading and trailing whitespace
RECURSIVE LStrip(_)
LStrip(s) == IF s # <<>> /\ Head(s) = " " THEN LStrip(Tail(s)) ELSE s

RECURSIVE RStrip(_)
RStrip(s) ==
    IF s # <<>> /\ s[Len(s)] = " " THEN RStrip(SubSeq(s, 1, Len(s) - 1)) ELSE s

Strip(s) == LStrip(RStrip(s))

\* ------------------------------------------------------------ lowercase_url
\* urlsplit: a leading run of scheme characters that starts with a letter
\* and ends at the first ":" is the scheme, which the parser lowercases
SplitScheme(url) ==
    LET colon == Find(url, {":"})
    IN  IF /\ colon > 1
           /\ url[1] \in Letters
           /\ \A i \in 1..(colon - 1) : url[i] \in SchemeChars
        THEN [scheme |-> Lower(SubSeq(url, 1, colon - 1)),
              rest |-> SubSeq(url, colon + 1, Len(url))]
        ELSE [scheme |-> <<>>, rest |-> url]

\* urlsplit: after "//" the netloc runs up to the first of "/?#"
SplitNetloc(rest) ==
    IF Len(rest) >= 2 /\ SubSeq(rest, 1, 2) = <<"/", "/">>
    THEN LET delim == FindFrom(rest, {"/", "?", "#"}, 3)
         IN  IF delim = 0
             THEN [netloc |-> SubSeq(rest, 3, Len(rest)), rest |-> <<>>]
             ELSE [netloc |-> SubSeq(rest, 3, delim - 1),
                   rest |-> SubSeq(rest, delim, Len(rest))]
    ELSE [netloc |-> <<>>, rest |-> rest]

\* str.split(c, 1): what stands before and after the first c
SplitFirst(s, c) ==
    LET i == Find(s, {c})
    IN  IF i = 0 THEN [head |-> s, tail |-> <<>>]
        ELSE [head |-> SubSeq(s, 1, i - 1), tail |-> SubSeq(s, i + 1, Len(s))]

\* urllib.parse.urlparse, as far as the characters of the model reach: the
\* scheme, the netloc, then fragment and query split off the rest (";" is
\* not among the characters, so params is always empty)
UrlParse(url) ==
    LET a == SplitScheme(url)
        b == SplitNetloc(a.rest)
        c == SplitFirst(b.rest, "#")
        d == SplitFirst(c.head, "?")
    IN  [scheme |-> a.scheme, netloc |-> b.netloc, path |-> d.head,
         query |-> d.tail, fragment |-> c.tail]

\* schemes of urllib.parse.uses_netloc that the characters can spell
UsesNetloc == {<<"h", "t", "t", "p">>}

\* urlunsplit: "//" and the netloc are written when there is a netloc, or
\* when the scheme is one that takes a netloc and the path has no "//"
UnsplitNetloc(scheme, netloc, path) ==
    IF \/ netloc # <<>>
       \/ /\ scheme # <<>>
          /\ scheme \in UsesNetloc
          /\ ~(Len(path) >= 2 /\ SubSeq(path, 1, 2) = <<"/", "/">>)
    THEN <<"/", "/">> \o netloc
         \o (IF path # <<>> /\ Head(path) # "/" THEN <<"/">> ELSE <<>>) \o path
    ELSE path

\* urlunsplit: a component is written with its delimiter before it, and
\* only when it is not empty
Prefixed(delim, part) == IF part # <<>> THEN <<delim>> \o part ELSE <<>>

\* urlunsplit: the scheme is written with ":" after it when not empty
WithScheme(scheme, url) == IF scheme # <<>> THEN scheme \o <<":">> \o url ELSE url

\* urllib.parse.urlunparse
UrlUnparse(p) ==
    WithScheme(p.scheme, UnsplitNetloc(p.scheme, p.netloc, p.path))
    \o Prefixed("?", p.query) \o Prefixed("#", p.fragment)

\* lowercasing the whole string where the code lowercases two components
lowercase_url_whole(url) == Lower(url)

\* lines 101-103
lowercase_url(url) ==
    LET parsed == UrlParse(url)
    IN  UrlUnparse([parsed EXCEPT !.scheme = Lower(parsed.scheme),
                                  !.netloc = Lower(parsed.netloc)])

\* ------------------------------------------------------------ target rows
Str_MoE == <<"M", "o", "E">>
Str_MoH == <<"M", "o", "H">>
Str_DoC == <<"D", "o", "C">>

Url_a  == <<"h", "t", "t", "p", ":", "/", "/", "a", ".", "n", "z", "/", "P">>
Url_A  == <<"H", "T", "T", "P", ":", "/", "/", "A", ".", "N", "Z", "/", "P">>
Url_b  == <<" ", "h", "t", "t", "p", ":", "/", "/", "b", ".", "n", "z", " ">>
Url_bq == <<"h", "t", "t", "p", ":", "/", "/", "b", ".", "n", "z", "?">>

\* the data rows a list file may hold, as dict(zip(header, row))
AllRows ==
    { [organisation |-> Str_MoE, url |-> Url_a],
      [organisation |-> Str_MoH, url |-> Url_A],
      [organisation |-> Str_MoE, url |-> Url_b],
      [organisation |-> Str_DoC, url |-> Url_bq] }

\* values of config.filter_to_organisations explored
OrgFilters == { <<>>, <<Str_MoE>>, <<Str_DoC, Str_MoH>> }

\* values of config.filter_to_domains explored
DomainFilters ==
    { <<>>, <<<<"a", ".", "n", "z">>>>,
      << <<"A", ".", "N", "Z">>, <<"b", ".", "n", "z">> >> }

\* --------------------------------------------------------- should_skip_row
\* the for/break loop of lines 71-74 and 78-81
RECURSIVE FoundIn(_, _)
FoundIn(list, field) ==
    IF list = <<>> THEN FALSE
    ELSE IF Contains(field, Head(list)) THEN TRUE
    ELSE FoundIn(Tail(list), field)

\* should_skip_row with the two filters joined by "or" where the code has
\* "and" (line 84): a row passes as soon as one filter matches
should_skip_row_or(cfg, row) ==
    LET found_org == FoundIn(cfg.filter_to_organisations, row.organisation)
        found_domain == FoundIn(cfg.filter_to_domains, row.url)
    IN  IF cfg.filter_to_organisations # <<>> /\ cfg.filter_to_domains # <<>>
        THEN ~(found_org \/ found_domain)
        ELSE IF cfg.filter_to_organisations # <<>> THEN ~found_org
        ELSE IF cfg.filter_to_domains # <<>> THEN ~found_domain
        ELSE FALSE

should_skip_row(cfg, row) ==
    LET found_org == IF cfg.filter_to_organisations # <<>>
                     THEN FoundIn(cfg.filter_to_organisations, row.organisation)
                     ELSE FALSE
        found_domain == IF cfg.filter_to_domains # <<>>
                        THEN FoundIn(cfg.filter_to_domains, row.url)
                        ELSE FALSE
    IN  IF cfg.filter_to_organisations # <<>> /\ cfg.filter_to_domains # <<>>
        THEN ~(found_org /\ found_domain)
        ELSE IF cfg.filter_to_organisations # <<>> THEN ~found_org
        ELSE IF cfg.filter_to_domains # <<>> THEN ~found_domain
        ELSE FALSE

\* ------------------------------------------------------------ shuffle_queue
\* all orders of the index set 1..n, as sequences
RECURSIVE Orders(_)
Orders(S) ==
    IF S = {} THEN { <<>> }
    ELSE UNION { { <<x>> \o o : o \in Orders(S \ {x}) } : x \in S }

\* a shuffle that draws with replacement (random.choices in place of
\* random.shuffle): items may come back twice or not at all
ShuffleWithReplacement(list) ==
    { [i \in 1..Len(list) |-> list[f[i]]] :
        f \in [1..Len(list) -> 1..Len(list)] }

\* random.shuffle(queue_list): any permutation of the drained list
ShuffleResults(list) ==
    { [i \in 1..Len(list) |-> list[o[i]]] : o \in Orders(1..Len(list)) }

\* a refill that stops one item short of the shuffled list
shuffle_queue_short_refill(queue) ==
    { SubSeq(q, 1, Len(q) - 1) : q \in ShuffleResults(queue) }

\* shuffle_queue drains the queue into a list, shuffles it and puts every
\* item back: the possible contents of the queue afterwards
shuffle_queue(queue) == ShuffleResults(queue)

\* import_base_urls shuffling whatever config.shuffle_base_urls says
ReturnedQueuesAlwaysShuffled(cfg, queue) == shuffle_queue(queue)

\* lines 167-170: the queue import_base_urls may return
ReturnedQueues(cfg, queue) ==
    IF cfg.shuffle_base_urls THEN shuffle_queue(queue) ELSE { queue }

\* ------------------------------------------------------------------- state
Workers == 0..(MaxThreads - 1)

NoRecord == [id |-> 0, organisation |-> <<>>, url |-> <<>>]

VARIABLES
    config,      \* the run configuration (config.*), mutable as in the code
    config0,     \* history: the configuration as it was loaded
    pc,          \* position of the run driver (CWAC.__init__)
    folder_path, \* import_base_urls: which directory is listed
    files_seen,  \* import_base_urls: directory entries visited so far
    rows_read,   \* import_base_urls: data rows read so far
    dict_row,    \* import_base_urls: the row last read, as it was read
    skipped,     \* import_base_urls: what should_skip_row said of dict_row
    url_queue,   \* CWAC.url_queue: records waiting, head first
    enqueued,    \* history: the records in the order of url_queue.put
    loaded,      \* history: the queue import_base_urls returned
    base_urls,   \* CWAC.analytics.base_urls
    est_num_pages_in_test, \* CWAC.analytics.est_num_pages_in_test, -1 unset
    submitted,   \* spawn_threads: tasks submitted to the executor
    result_idx,  \* spawn_threads: the future the result loop is at
    wstate,      \* each worker's position in CWAC.thread
    browser,     \* each worker's browser session
    holding,     \* the record a worker's crawler holds
    handed,      \* history: the id of every record dequeued, in order
    first_failed,\* history: the worker that failed first in time, or -1
    failure,     \* the failure that reached the caller of the run driver
    raised,      \* the worker whose failure reached the caller, or -1
    verify_calls,\* number of calls of src.verify.verify_axe_results
    banner       \* whether "CWAC complete!" was printed

loadvars == <<folder_path, files_seen, rows_read, dict_row, skipped,
              enqueued, loaded, base_urls>>
poolvars == <<submitted, result_idx, wstate, browser, holding, handed,
              first_failed>>
endvars == <<failure, raised, verify_calls, banner>>
vars == <<config, config0, pc, url_queue, est_num_pages_in_test,
          loadvars, poolvars, endvars>>

Configs(orgs, doms) ==
    [thread_count : 1..MaxThreads,
     nocrawl_mode : BOOLEAN,
     shuffle_base_urls : BOOLEAN,
     max_links_per_domain : 1..MaxLinks,
     filter_to_organisations : orgs,
     filter_to_domains : doms]

InitWith(cfgs) ==
    /\ config \in cfgs
    /\ config0 = config
    /\ pc = "start"
    /\ folder_path = "unset"
    /\ files_seen = 0
    /\ rows_read = 0
    /\ dict_row = NoRecord
    /\ skipped = FALSE
    /\ url_queue = <<>>
    /\ enqueued = <<>>
    /\ loaded = <<>>
    /\ base_urls = {}
    /\ est_num_pages_in_test = -1
    /\ submitted = 0
    /\ result_idx = 0
    /\ wstate = [w \in Workers |-> "idle"]
    /\ browser = [w \in Workers |-> "none"]
    /\ holding = [w \in Workers |-> NoRecord]
    /\ handed = <<>>
    /\ first_failed = -1
    /\ failure = "none"
    /\ raised = -1
    /\ verify_calls = 0
    /\ banner = FALSE

\* ------------------------------------------------------- import_base_urls
\* the link cap without the no-crawl override of line 136
EffectiveMaxLinksNoOverride(cfg) == cfg.max_links_per_domain

\* the override of line 136 applied in every mode
EffectiveMaxLinksAlwaysOne(cfg) == 1

\* lines 134-136: the per-domain link cap after the no-crawl override
EffectiveMaxLinks(cfg) ==
    IF cfg.nocrawl_mode THEN 1 ELSE cfg.max_links_per_domain

\* lines 132-138: choose the directory, override the cap, make the queue
StartImport ==
    /\ pc = "start"
    /\ pc' = "listdir"
    /\ folder_path' = IF config.nocrawl_mode THEN "base_urls_nocrawl_path"
                      ELSE "base_urls_crawl_path"
    /\ config' = [config EXCEPT !.max_links_per_domain = EffectiveMaxLinks(config)]
    /\ url_queue' = <<>>
    /\ UNCHANGED <<config0, est_num_pages_in_test, files_seen, rows_read,
                   dict_row, skipped, enqueued, loaded, base_urls,
                   poolvars, endvars>>

\* the failures that end the load
LoadFailures == {"listdir", "open", "header"}

\* a load failure that is recorded and passed over: the run goes on with
\* what was loaded
LoadFailsSwallowed(kind) ==
    /\ pc' = "imported"
    /\ failure' = kind
    /\ UNCHANGED <<config, config0, url_queue, est_num_pages_in_test,
                   loadvars, poolvars, raised, verify_calls, banner>>

\* a load failure leaves import_base_urls and __init__ as an exception
LoadFails(kind) ==
    /\ pc' = "failed"
    /\ failure' = kind
    /\ UNCHANGED <<config, config0, url_queue, est_num_pages_in_test,
                   loadvars, poolvars, raised, verify_calls, banner>>

\* line 140: os.listdir raises on an unreadable directory
ListDirFail ==
    /\ pc = "listdir"
    /\ LoadFails("listdir")

\* line 140: os.listdir returns
ListDir ==
    /\ pc = "listdir"
    /\ pc' = "files"
    /\ UNCHANGED <<config, config0, url_queue, est_num_pages_in_test,
                   loadvars, poolvars, endvars>>

\* line 141: a directory entry that does not end in ".csv" is passed over
SkipFile ==
    /\ pc = "files"
    /\ files_seen < MaxFiles
    /\ files_seen' = files_seen + 1
    /\ UNCHANGED <<config, config0, pc, url_queue, est_num_pages_in_test,
                   folder_path, rows_read, dict_row, skipped, enqueued,
                   loaded, base_urls, poolvars, endvars>>

\* lines 142-146: open raises on an unreadable list file
OpenFileFail ==
    /\ pc = "files"
    /\ files_seen < MaxFiles
    /\ LoadFails("open")

\* line 148: next(reader) raises on a list file without a header row
NoHeader ==
    /\ pc = "files"
    /\ files_seen < MaxFiles
    /\ LoadFails("header")

\* lines 142-148: a list file is opened and its header row read
OpenFile ==
    /\ pc = "files"
    /\ files_seen < MaxFiles
    /\ files_seen' = files_seen + 1
    /\ pc' = "rows"
    /\ UNCHANGED <<config, config0, url_queue, est_num_pages_in_test,
                   folder_path, rows_read, dict_row, skipped, enqueued,
                   loaded, base_urls, poolvars, endvars>>

\* lines 154-158: the URL a kept row is stored under
NormalizedUrl(row) == lowercase_url(Strip(row.url))

\* registering by assignment where the code adds: only the last URL stays
AddBaseUrlReplacing(urls, url) == {url}

\* line 163: CWAC.analytics.base_urls.add(url)
AddBaseUrl(urls, url) == urls \cup {url}

\* line 165: url_queue.put(dict_row)
QueuePut(queue, rec) == Append(queue, rec)

\* lines 149-165: one data row is read, filtered, normalized, registered
\* and enqueued
ReadRow(row) ==
    /\ pc = "rows"
    /\ rows_read < MaxRows
    /\ rows_read' = rows_read + 1
    /\ dict_row' = row
    /\ skipped' = should_skip_row(config, row)
    /\ IF should_skip_row(config, row)
       THEN UNCHANGED <<url_queue, enqueued, base_urls>>
       ELSE LET rec == [id |-> Len(enqueued) + 1,
                        organisation |-> row.organisation,
                        url |-> NormalizedUrl(row)]
            IN  /\ base_urls' = AddBaseUrl(base_urls, rec.url)
                /\ url_queue' = QueuePut(url_queue, rec)
                /\ enqueued' = Append(enqueued, rec)
    /\ UNCHANGED <<config, config0, pc, est_num_pages_in_test, folder_path,
                   files_seen, loaded, poolvars, endvars>>

\* line 149: the reader is exhausted and the file is closed
EndFile ==
    /\ pc = "rows"
    /\ pc' = "files"
    /\ UNCHANGED <<config, config0, url_queue, est_num_pages_in_test,
                   loadvars, poolvars, endvars>>

\* lines 167-170 and 183: the listing is exhausted; the queue is shuffled
\* when configured, returned, and becomes CWAC.url_queue; the locals of
\* import_base_urls end with the call
EndImport ==
    /\ pc = "files"
    /\ \E q \in ReturnedQueues(config, url_queue) :
          /\ url_queue' = q
          /\ loaded' = q
    /\ pc' = "imported"
    /\ folder_path' = "unset"
    /\ files_seen' = 0
    /\ rows_read' = 0
    /\ dict_row' = NoRecord
    /\ skipped' = FALSE
    /\ UNCHANGED <<config, config0, est_num_pages_in_test, enqueued,
                   base_urls, poolvars, endvars>>

\* ---------------------------------------------------------------- __init__
\* the estimate without the multiplication by the link cap
EstimatedPagesNoCap(queue, cfg) == Len(queue)

\* line 192: qsize() * config.max_links_per_domain
EstimatedPages(queue, cfg) == Len(queue) * cfg.max_links_per_domain

\* lines 186-192: the number of websites is printed and the estimate set
Estimate ==
    /\ pc = "imported"
    /\ est_num_pages_in_test' = EstimatedPages(url_queue, config)
    /\ pc' = "dispatch"
    /\ UNCHANGED <<config, config0, url_queue, loadvars, poolvars, endvars>>

\* ------------------------------------------------------------- CWAC.thread
Terminated == {"done", "failed"}

\* the workers the configuration asks for: range(config.thread_count)
Pool == 0..(config.thread_count - 1)

\* a failure that stops the whole pool: the workers still running return
\* at once, whatever the queue holds
WorkerFailsCancelsPending(w) ==
    /\ wstate' = [v \in Workers |->
                    IF v = w THEN "failed"
                    ELSE IF wstate[v] \in {"ready", "crawl", "closing"}
                         THEN "done"
                         ELSE wstate[v]]
    /\ first_failed' = IF first_failed = -1 THEN w ELSE first_failed

\* a worker raises: CWAC.thread is left by the exception
WorkerFails(w) ==
    /\ wstate' = [wstate EXCEPT ![w] = "failed"]
    /\ first_failed' = IF first_failed = -1 THEN w ELSE first_failed

\* line 39: Browser(thread_id) opens the worker's browser session
OpenBrowser(w) ==
    /\ wstate[w] = "ready"
    /\ wstate' = [wstate EXCEPT ![w] = "crawl"]
    /\ browser' = [browser EXCEPT ![w] = "open"]
    /\ UNCHANGED <<config, config0, pc, url_queue, est_num_pages_in_test,
                   loadvars, submitted, result_idx, holding, handed,
                   first_failed, endvars>>

\* line 39: Browser(thread_id) raises; no session was acquired
OpenBrowserFail(w) ==
    /\ wstate[w] = "ready"
    /\ WorkerFails(w)
    /\ UNCHANGED <<config, config0, pc, url_queue, est_num_pages_in_test,
                   loadvars, submitted, result_idx, browser, holding, handed,
                   endvars>>

\* line 40: the queue the worker's Crawler is given is CWAC.url_queue, the
\* one queue of the run
CrawlerQueue(w) == url_queue

\* line 41, iterate_through_base_urls: the crawler takes the next target
\* off the queue (one atomic get)
TakeTarget(w) ==
    /\ wstate[w] = "crawl"
    /\ holding[w] = NoRecord
    /\ CrawlerQueue(w) # <<>>
    /\ holding' = [holding EXCEPT ![w] = Head(CrawlerQueue(w))]
    /\ handed' = Append(handed, Head(CrawlerQueue(w)).id)
    /\ url_queue' = Tail(url_queue)
    /\ UNCHANGED <<config, config0, pc, est_num_pages_in_test, loadvars,
                   submitted, result_idx, wstate, browser, first_failed,
                   endvars>>

\* line 41, iterate_through_base_urls: the crawl of the held target ends,
\* with or without target-level failures, and the loop goes on
FinishTarget(w) ==
    /\ wstate[w] = "crawl"
    /\ holding[w] # NoRecord
    /\ holding' = [holding EXCEPT ![w] = NoRecord]
    /\ UNCHANGED <<config, config0, pc, url_queue, est_num_pages_in_test,
                   loadvars, submitted, result_idx, wstate, browser, handed,
                   first_failed, endvars>>

\* a failing crawl that puts the target it holds back on the queue
CrawlFailsRequeue(w) ==
    /\ wstate[w] = "crawl"
    /\ holding[w] # NoRecord
    /\ WorkerFails(w)
    /\ url_queue' = Append(url_queue, holding[w])
    /\ UNCHANGED <<config, config0, pc, est_num_pages_in_test,
                   loadvars, submitted, result_idx, browser, holding, handed,
                   endvars>>

\* line 41: iterate_through_base_urls raises an unrecovered failure while
\* crawling a target; line 42 is not reached
CrawlFails(w) ==
    /\ wstate[w] = "crawl"
    /\ holding[w] # NoRecord
    /\ WorkerFails(w)
    /\ UNCHANGED <<config, config0, pc, url_queue, est_num_pages_in_test,
                   loadvars, submitted, result_idx, browser, holding, handed,
                   endvars>>

\* line 41: iterate_through_base_urls finds the queue empty and returns
CrawlReturns(w) ==
    /\ wstate[w] = "crawl"
    /\ holding[w] = NoRecord
    /\ CrawlerQueue(w) = <<>>
    /\ wstate' = [wstate EXCEPT ![w] = "closing"]
    /\ UNCHANGED <<config, config0, pc, url_queue, est_num_pages_in_test,
                   loadvars, submitted, result_idx, browser, holding, handed,
                   first_failed, endvars>>

\* line 42: browser.close() releases the session and the worker returns
CloseBrowser(w) ==
    /\ wstate[w] = "closing"
    /\ browser' = [browser EXCEPT ![w] = "closed"]
    /\ wstate' = [wstate EXCEPT ![w] = "done"]
    /\ UNCHANGED <<config, config0, pc, url_queue, est_num_pages_in_test,
                   loadvars, submitted, result_idx, holding, handed,
                   first_failed, endvars>>

\* line 42: browser.close() raises
CloseBrowserFail(w) ==
    /\ wstate[w] = "closing"
    /\ browser' = [browser EXCEPT ![w] = "close_failed"]
    /\ WorkerFails(w)
    /\ UNCHANGED <<config, config0, pc, url_queue, est_num_pages_in_test,
                   loadvars, submitted, result_idx, holding, handed, endvars>>

\* -------------------------------------------------- __init__, single worker
\* lines 194-196: thread(0) is called on the caller's own thread
RunInline ==
    /\ pc = "dispatch"
    /\ config.thread_count = 1
    /\ pc' = "inline"
    /\ wstate' = [wstate EXCEPT ![0] = "ready"]
    /\ UNCHANGED <<config, config0, url_queue, est_num_pages_in_test,
                   loadvars, submitted, result_idx, browser, holding, handed,
                   first_failed, endvars>>

\* line 196: thread(0) returns
InlineReturns ==
    /\ pc = "inline"
    /\ wstate[0] = "done"
    /\ pc' = "verify"
    /\ UNCHANGED <<config, config0, url_queue, est_num_pages_in_test,
                   loadvars, poolvars, endvars>>

\* a worker's failure leaves __init__ as an exception
WorkerFailureReachesCaller(w) ==
    /\ pc' = "failed"
    /\ failure' = "worker"
    /\ raised' = w
    /\ UNCHANGED <<config, config0, url_queue, est_num_pages_in_test,
                   loadvars, poolvars, verify_calls, banner>>

\* line 196: thread(0) raises
InlineRaises ==
    /\ pc = "inline"
    /\ wstate[0] = "failed"
    /\ WorkerFailureReachesCaller(0)

\* ------------------------------------------------------------ spawn_threads
\* lines 197-199 and 49: the executor is created
EnterPool ==
    /\ pc = "dispatch"
    /\ config.thread_count # 1
    /\ pc' = "submit"
    /\ UNCHANGED <<config, config0, url_queue, est_num_pages_in_test,
                   loadvars, poolvars, endvars>>

\* a submit loop that hands every task the identity 0
SubmitSameId ==
    /\ pc = "submit"
    /\ submitted < config.thread_count
    /\ wstate' = [wstate EXCEPT ![0] = "ready"]
    /\ submitted' = submitted + 1
    /\ UNCHANGED <<config, config0, pc, url_queue, est_num_pages_in_test,
                   loadvars, result_idx, browser, holding, handed,
                   first_failed, endvars>>

\* line 50: executor.submit(self.thread, thread_id), in the order of
\* range(config.thread_count); a submitted task may start at once
Submit ==
    /\ pc = "submit"
    /\ submitted < config.thread_count
    /\ wstate' = [wstate EXCEPT ![submitted] = "ready"]
    /\ submitted' = submitted + 1
    /\ UNCHANGED <<config, config0, pc, url_queue, est_num_pages_in_test,
                   loadvars, result_idx, browser, holding, handed,
                   first_failed, endvars>>

\* a task counted as finished as soon as it was submitted
TaskSubmitted(w) == wstate[w] # "idle"

\* a join that is over only for a task that returned: a task that raised
\* is waited for without end
TaskReturned(w) == wstate[w] = "done"

\* the task of worker w has finished: its future is done
TaskDone(w) == wstate[w] \in Terminated

\* leaving the with block without waiting (shutdown(wait=False))
ExitWithNoWait ==
    /\ pc = "submit"
    /\ submitted = config.thread_count
    /\ pc' = "results"
    /\ UNCHANGED <<config, config0, url_queue, est_num_pages_in_test,
                   loadvars, poolvars, endvars>>

\* line 49: leaving the with block is executor.shutdown(wait=True), which
\* returns when every submitted task has finished
ExitWith ==
    /\ pc = "submit"
    /\ submitted = config.thread_count
    /\ \A w \in Pool : TaskDone(w)
    /\ pc' = "results"
    /\ UNCHANGED <<config, config0, url_queue, est_num_pages_in_test,
                   loadvars, poolvars, endvars>>

\* a result loop that waits for each future but drops what it holds
\* (concurrent.futures.wait in place of result.result())
NextResultSwallows ==
    /\ pc = "results"
    /\ result_idx < config.thread_count
    /\ wstate[result_idx] \in {"done", "failed"}
    /\ result_idx' = result_idx + 1
    /\ UNCHANGED <<config, config0, pc, url_queue, est_num_pages_in_test,
                   loadvars, submitted, wstate, browser, holding, handed,
                   first_failed, endvars>>

\* a result loop that raises the failure of the worker that failed first
\* (futures read as they complete, not as they were submitted)
NextResultFirstInTime ==
    /\ pc = "results"
    /\ result_idx < config.thread_count
    /\ TaskDone(result_idx)
    /\ IF first_failed # -1
       THEN WorkerFailureReachesCaller(first_failed)
       ELSE /\ result_idx' = result_idx + 1
            /\ UNCHANGED <<config, config0, pc, url_queue,
                           est_num_pages_in_test, loadvars, submitted,
                           wstate, browser, holding, handed, first_failed,
                           endvars>>

\* lines 51-52: result.result() of the next future, in the order of
\* submission: it waits for the task, then returns or re-raises
NextResult ==
    /\ pc = "results"
    /\ result_idx < config.thread_count
    /\ TaskDone(result_idx)
    /\ IF wstate[result_idx] = "failed"
       THEN WorkerFailureReachesCaller(result_idx)
       ELSE /\ result_idx' = result_idx + 1
            /\ UNCHANGED <<config, config0, pc, url_queue,
                           est_num_pages_in_test, loadvars, submitted,
                           wstate, browser, holding, handed, first_failed,
                           endvars>>

\* a supervisor that goes past the verification step when no target was
\* crawled
PoolReturnsSkipsVerify ==
    /\ pc = "results"
    /\ result_idx = config.thread_count
    /\ pc' = IF handed = <<>> THEN "verified" ELSE "verify"
    /\ UNCHANGED <<config, config0, url_queue, est_num_pages_in_test,
                   loadvars, poolvars, endvars>>

\* line 53: every result was read; "All threads complete" is logged
PoolReturns ==
    /\ pc = "results"
    /\ result_idx = config.thread_count
    /\ pc' = "verify"
    /\ UNCHANGED <<config, config0, url_queue, est_num_pages_in_test,
                   loadvars, poolvars, endvars>>

\* ------------------------------------------------------ __init__, the end
\* line 202: src.verify.verify_axe_results is called
Verify ==
    /\ pc = "verify"
    /\ verify_calls' = verify_calls + 1
    /\ pc' = "verified"
    /\ UNCHANGED <<config, config0, url_queue, est_num_pages_in_test,
                   loadvars, poolvars, failure, raised, banner>>

\* lines 204-208: the completion banner is printed and logged
Complete ==
    /\ pc = "verified"
    /\ banner' = TRUE
    /\ pc' = "complete"
    /\ UNCHANGED <<config, config0, url_queue, est_num_pages_in_test,
                   loadvars, poolvars, failure, raised, verify_calls>>

\* ---------------------------------------------------------- specifications
Load(rows) ==
    \/ StartImport
    \/ ListDirFail
    \/ ListDir
    \/ SkipFile
    \/ OpenFileFail
    \/ NoHeader
    \/ OpenFile
    \/ \E row \in rows : ReadRow(row)
    \/ EndFile
    \/ EndImport
    \/ Estimate

Work ==
    \E w \in Workers :
        \/ OpenBrowser(w)
        \/ OpenBrowserFail(w)
        \/ TakeTarget(w)
        \/ FinishTarget(w)
        \/ CrawlFails(w)
        \/ CrawlReturns(w)
        \/ CloseBrowser(w)
        \/ CloseBrowserFail(w)

Drive ==
    \/ RunInline
    \/ InlineReturns
    \/ InlineRaises
    \/ EnterPool
    \/ Submit
    \/ ExitWith
    \/ NextResult
    \/ PoolReturns
    \/ Verify
    \/ Complete

\* the rows of the whole-run specification: what a row holds matters to the
\* load only
RunRows == { [organisation |-> Str_MoE, url |-> Url_a] }

Next == Load(RunRows) \/ Work \/ Drive

\* configurations of the whole-run specification: the filters matter to the
\* load only, and the link cap and no-crawl mode to the estimate only, so
\* every cap and both modes are run with the single worker, and the largest
\* cap in crawl mode with the pool
RunConfigs ==
    { c \in Configs({ <<>> }, { <<>> }) :
        \/ c.thread_count = 1
        \/ c.max_links_per_domain = MaxLinks /\ ~c.nocrawl_mode }

Init == InitWith(RunConfigs)

Spec == Init /\ [][Next]_vars

\* URLs for the normalizer alone: with and without scheme, authority,
\* user-info, port, query and fragment, and with surrounding blanks
Url_full == <<"H", "T", "T", "P", ":", "/", "/", "A", ".", "n", "z", "/", "P", "?", "b", "#", "T">>
Url_user == <<"h", "t", "t", "p", ":", "/", "/", "P", "@", "A", ".", "n", "z", "/", "P">>
Url_port == <<"h", "t", "t", "p", ":", "/", "/", "a", ".", "n", "z", ":", "8", "/", "P">>
Url_nonet == <<"h", "t", "t", "p", ":", "p">>
Url_noscheme == <<"/", "/", "A", ".", "n", "z", "#", "T">>
Url_bare == <<"a", ".", "n", "z", "/", "P", "?">>
Url_space == <<" ", "H", "t", "t", "p", ":", "/", "/", "B", ".", "n", "z", " ">>
Url_pass == <<"h", "t", "t", "p", ":", "/", "/", "P", ":", "T", "@", "a", ".", "n", "z", ":", "8">>

UrlRows ==
    { [organisation |-> Str_MoE, url |-> u] :
        u \in { Url_full, Url_user, Url_port, Url_nonet, Url_noscheme,
                Url_bare, Url_space, Url_pass } }

\* the load applied to those URLs, unfiltered
UrlConfigs ==
    { c \in Configs({ <<>> }, { <<>> }) :
        /\ c.thread_count = 1
        /\ c.max_links_per_domain = 1
        /\ ~c.nocrawl_mode
        /\ ~c.shuffle_base_urls }

InitUrl == InitWith(UrlConfigs)

NextUrl == Load(UrlRows)

SpecUrl == InitUrl /\ [][NextUrl]_vars

\* the whole run when the caller's thread and the worker threads are
\* scheduled and every call returns or raises: a step that can be taken is
\* not put off for ever. Reading one more row is left out of the steps
\* that must happen: a file may end after any row.
FairSpec == Spec /\ WF_vars(Load({}) \/ Work \/ Drive)

\* the load and the estimate alone, under every filter configuration
LoadConfigs == Configs(OrgFilters, DomainFilters)

InitLoad == InitWith(LoadConfigs)

NextLoad == Load(AllRows)

SpecLoad == InitLoad /\ [][NextLoad]_vars

\* ------------------------------------------------------------------ claims
\* the ids of the records the loader put on the queue
EnqueuedIds == 1..Len(enqueued)

\* the ids of the records handed out so far
HandedIds == { handed[i] : i \in DOMAIN handed }

\* the workers have been started by the driver
Dispatched == pc \in {"inline", "submit", "results", "verify", "verified",
                      "complete", "failed"} /\ failure \notin LoadFailures

\* the run driver has returned or raised
Ended == pc \in {"complete", "failed"}

\* C1: every record the loader enqueued is handed out at most once, two
\* workers never hold the same record, and once every worker of the run has
\* returned normally every enqueued record has been handed out exactly once.
C1_EachRecordHandedOnce ==
    /\ \A i, j \in DOMAIN handed : i # j => handed[i] # handed[j]
    /\ HandedIds \subseteq EnqueuedIds
    /\ \A v, w \in Workers :
          (v # w /\ holding[v] # NoRecord) => holding[v].id # holding[w].id
    /\ (Dispatched /\ \A w \in Pool : wstate[w] = "done")
          => (HandedIds = EnqueuedIds /\ Len(handed) = Len(enqueued))

C1_Witness ==
    /\ config.thread_count >= 2
    /\ \A w \in Pool : wstate[w] = "done"
    /\ Len(enqueued) >= 2
    /\ Len(handed) = Len(enqueued)
    /\ config.shuffle_base_urls

\* C2: a worker that has left CWAC.thread, by returning or by raising, does
\* not leave its browser session open.
C2_BrowserReleasedOnExit ==
    \A w \in Workers : wstate[w] \in Terminated => browser[w] # "open"

\* C3: with two or more workers, a worker's failure reaches the caller of
\* the supervisor only when every worker of the pool has terminated.
C3_RaisesAfterAllTerminated ==
    (failure = "worker" /\ config.thread_count >= 2)
        => \A w \in Pool : wstate[w] \in Terminated

C3_Witness ==
    /\ failure = "worker"
    /\ config.thread_count >= 2
    /\ \E w \in Pool : wstate[w] = "done"
    /\ \E w \in Pool : wstate[w] = "failed" /\ w # first_failed

\* C4, as stated: every run that got past target loading and has ended
\* called the verification step exactly once.
C4_VerifyExactlyOnceInEveryRun ==
    (Ended /\ failure \notin LoadFailures) => verify_calls = 1

\* C4, amended: the verification step is called at most once and only when
\* every worker of the run has returned normally; a run that completes has
\* called it once, and a run ended by a worker's failure has not called it.
C4_VerifyOnceAfterWorkers ==
    /\ verify_calls <= 1
    /\ verify_calls = 1 => \A w \in Pool : wstate[w] = "done"
    /\ pc = "complete" => verify_calls = 1
    /\ failure = "worker" => verify_calls = 0

C4_Witness ==
    /\ pc = "complete"
    /\ verify_calls = 1
    /\ config.thread_count >= 2
    /\ Len(handed) >= 1

\* C5: once a worker has failed the run reports no completion, and a run
\* that has ended with a failed worker ended in a worker failure at the
\* caller; the completion banner is printed only after verification.
C5_WorkerFailureEndsRun ==
    /\ (\E w \in Pool : wstate[w] = "failed")
          => /\ ~banner
             /\ pc \notin {"verify", "verified", "complete"}
             /\ (Ended => failure = "worker")
    /\ banner => verify_calls >= 1

C5_Witness ==
    /\ pc = "failed"
    /\ failure = "worker"
    /\ config.thread_count >= 2
    /\ \E w \in Pool : wstate[w] = "done"

\* import_base_urls has returned
Imported == pc \notin {"start", "listdir", "files", "rows"}
            /\ failure \notin LoadFailures

\* the URLs of the records the loader put on the queue
EnqueuedUrls == { enqueued[i].url : i \in DOMAIN enqueued }

\* two of the loaded records carry the same normalized URL
DuplicateLoaded ==
    \E i, j \in DOMAIN enqueued : i # j /\ enqueued[i].url = enqueued[j].url

\* C6, as stated: when the loader has returned, as many base URLs are
\* registered in analytics as records were enqueued.
C6_RegisteredEqualsEnqueued ==
    Imported => Cardinality(base_urls) = Len(enqueued)

\* C6, amended: when the loader has returned, the registered base URLs are
\* the distinct normalized URLs of the enqueued records: every duplicate is
\* queued, registered once, and the two counts agree exactly when no two
\* enqueued records carry the same URL.
C6_RegisteredAreDistinctEnqueued ==
    Imported =>
        /\ base_urls = EnqueuedUrls
        /\ (Len(url_queue) = Len(enqueued) \/ Dispatched)
        /\ Cardinality(base_urls) <= Len(enqueued)
        /\ (Cardinality(base_urls) = Len(enqueued)) <=> ~DuplicateLoaded

C6_Witness ==
    /\ Imported
    /\ DuplicateLoaded
    /\ Len(enqueued) = 3
    /\ Cardinality(base_urls) = 2
    /\ Len(url_queue) = 3

\* C7: the estimate, once set, is the number of records the loader returned
\* times the effective link cap: 1 in no-crawl mode whatever was configured,
\* the configured cap otherwise; and no worker has started before it is set.
C7_EstimateUsesEffectiveCap ==
    /\ est_num_pages_in_test # -1 =>
          est_num_pages_in_test =
              Len(loaded) * (IF config0.nocrawl_mode THEN 1
                             ELSE config0.max_links_per_domain)
    /\ est_num_pages_in_test = -1 =>
          /\ \A w \in Workers : wstate[w] = "idle"
          /\ pc \in {"start", "listdir", "files", "rows", "imported", "failed"}
    /\ pc = "dispatch" => est_num_pages_in_test # -1

C7_Witness ==
    /\ pc = "dispatch"
    /\ config0.nocrawl_mode
    /\ config0.max_links_per_domain = 2
    /\ Len(loaded) = 3
    /\ est_num_pages_in_test = 3

\* C8, as stated: the estimate is the number of distinct registered base
\* URLs times max_links_per_domain.
C8_EstimateFromDistinctUrls ==
    est_num_pages_in_test # -1 =>
        est_num_pages_in_test =
            Cardinality(base_urls) * config.max_links_per_domain

\* C8, amended: the estimate is the number of records in the loaded queue
\* times max_links_per_domain; it is the number of distinct registered base
\* URLs times max_links_per_domain when no two loaded records carry the same
\* URL, and larger than that when some do and the cap is positive.
C8_EstimateCountsDuplicates ==
    est_num_pages_in_test # -1 =>
        LET distinct == Cardinality(base_urls) * config.max_links_per_domain
        IN  /\ est_num_pages_in_test = Len(loaded) * config.max_links_per_domain
            /\ ~DuplicateLoaded => est_num_pages_in_test = distinct
            /\ (DuplicateLoaded /\ config.max_links_per_domain >= 1)
                  => est_num_pages_in_test > distinct

C8_Witness ==
    /\ est_num_pages_in_test = 6
    /\ DuplicateLoaded
    /\ Cardinality(base_urls) = 2
    /\ config.max_links_per_domain = 2

\* some entry of the allow-list occurs in the field
Listed(list, field) == \E i \in DOMAIN list : Contains(field, list[i])

\* C9: what should_skip_row answered for the row last read is: no skip with
\* both allow-lists empty; with one list set, skip unless that list matches
\* its field; with both set, skip unless both match.
C9_SkipTable ==
    dict_row # NoRecord =>
        LET orgs == config.filter_to_organisations
            doms == config.filter_to_domains
            org_ok == Listed(orgs, dict_row.organisation)
            dom_ok == Listed(doms, dict_row.url)
        IN  /\ (orgs = <<>> /\ doms = <<>>) => skipped = FALSE
            /\ (orgs # <<>> /\ doms = <<>>) => skipped = ~org_ok
            /\ (orgs = <<>> /\ doms # <<>>) => skipped = ~dom_ok
            /\ (orgs # <<>> /\ doms # <<>>) => skipped = ~(org_ok /\ dom_ok)

C9_Witness ==
    /\ dict_row # NoRecord
    /\ config.filter_to_organisations # <<>>
    /\ config.filter_to_domains # <<>>
    /\ Listed(config.filter_to_organisations, dict_row.organisation)
    /\ ~Listed(config.filter_to_domains, dict_row.url)
    /\ skipped
    /\ enqueued = <<>>

\* C10: without shuffling and with one worker, the records are dequeued in
\* the order in which the loader enqueued them, and all of them are once the
\* worker has returned.
C10_FifoWithOneWorker ==
    (~config.shuffle_base_urls /\ config.thread_count = 1) =>
        /\ Len(handed) <= Len(enqueued)
        /\ \A i \in DOMAIN handed : handed[i] = enqueued[i].id
        /\ wstate[0] = "done" => Len(handed) = Len(enqueued)

C10_Witness ==
    /\ ~config.shuffle_base_urls
    /\ config.thread_count = 1
    /\ wstate[0] = "done"
    /\ Len(handed) = 3


\* a worker's browser session could not be opened or closed
BrowserFailed(w) ==
    wstate[w] = "failed" /\ browser[w] \in {"none", "close_failed"}

\* C11: when the loader returned an empty queue, no worker is ever handed a
\* target, so no crawl fails; the run reaches verification only with every
\* worker of the run started and finished and its browser closed; a
\* completed run has verified once; and the run ends in completion unless a
\* browser session failed to open or close.
C11_EmptyQueueRunCompletes ==
    (Dispatched /\ loaded = <<>>) =>
        /\ handed = <<>>
        /\ \A w \in Workers : holding[w] = NoRecord
        /\ pc \in {"verify", "verified", "complete"} =>
              \A w \in Pool : wstate[w] = "done" /\ browser[w] = "closed"
        /\ pc = "complete" => verify_calls = 1
        /\ Ended => (pc = "complete" \/ \E w \in Pool : BrowserFailed(w))

C11_Witness ==
    /\ pc = "complete"
    /\ loaded = <<>>
    /\ config.thread_count >= 3
    /\ verify_calls = 1
    /\ \A w \in Pool : wstate[w] = "done" /\ browser[w] = "closed"

\* the executor of spawn_threads exists
InPool == pc \in {"submit", "results"}

\* C12: the workers started are those of the identities 0..thread_count-1,
\* one task each: beyond them no worker ever leaves idle, a worker runs only
\* once submitted, and when every task is submitted every identity of the
\* pool has its task; with thread_count = 1 no executor is created, nothing
\* is submitted, and worker 0 runs while the driver waits in its own call.
C12_OneWorkerPerIdentity ==
    /\ \A w \in Workers : w \notin Pool => wstate[w] = "idle"
    /\ submitted <= config.thread_count
    /\ config.thread_count # 1 =>
          /\ \A w \in Pool : (w >= submitted) => wstate[w] = "idle"
          /\ (Dispatched /\ submitted = config.thread_count) =>
                \A w \in Pool : wstate[w] # "idle"
    /\ config.thread_count = 1 =>
          /\ ~InPool
          /\ submitted = 0
          /\ wstate[0] \notin {"idle", "done", "failed"} => pc = "inline"
          /\ pc \in {"verify", "verified", "complete"} => wstate[0] = "done"

C12_Witness ==
    /\ config.thread_count = 3
    /\ submitted = 3
    /\ \A w \in Pool : wstate[w] = "crawl"


\* index of the last "@" of a netloc, or 0
LastAt(netloc) ==
    IF \E i \in DOMAIN netloc : netloc[i] = "@"
    THEN CHOOSE i \in DOMAIN netloc :
            netloc[i] = "@" /\ \A j \in DOMAIN netloc : netloc[j] = "@" => j <= i
    ELSE 0

\* the user-info of a netloc: what stands before its last "@"
UserInfo(netloc) == SubSeq(netloc, 1, LastAt(netloc) - 1)

\* host and port of a netloc: what stands after its last "@", split at ":"
HostPort(netloc) ==
    SplitFirst(SubSeq(netloc, LastAt(netloc) + 1, Len(netloc)), ":")

\* a kept row was read last: its URL went through strip and lowercase_url
\* and is the URL of the record enqueued last
RowNormalized == dict_row # NoRecord /\ ~skipped /\ enqueued # <<>>

\* the components of the URL given to lowercase_url, and of its result
UrlIn == UrlParse(Strip(dict_row.url))

UrlOut == UrlParse(enqueued[Len(enqueued)].url)

FieldsNeverAssigned ==
    /\ config.thread_count = config0.thread_count
    /\ config.nocrawl_mode = config0.nocrawl_mode
    /\ config.shuffle_base_urls = config0.shuffle_base_urls
    /\ config.filter_to_organisations = config0.filter_to_organisations
    /\ config.filter_to_domains = config0.filter_to_domains

\* C14, as stated: every configuration field, max_links_per_domain
\* included, has at every point of the run the value it was loaded with.
C14_ConfigNeverChanges == config = config0

\* C14, amended: every field but max_links_per_domain keeps the value it
\* was loaded with; max_links_per_domain keeps it in crawl mode, and in
\* no-crawl mode is 1 from the start of the load to the end of the run.
C14_ConfigChangesOnlyPageCap ==
    /\ FieldsNeverAssigned
    /\ ~config0.nocrawl_mode =>
          config.max_links_per_domain = config0.max_links_per_domain
    /\ (config0.nocrawl_mode /\ pc = "start") =>
          config.max_links_per_domain = config0.max_links_per_domain
    /\ (config0.nocrawl_mode /\ pc # "start") =>
          config.max_links_per_domain = 1

C14_Witness ==
    /\ pc = "complete"
    /\ config0.nocrawl_mode
    /\ config0.max_links_per_domain = MaxLinks
    /\ config.max_links_per_domain = 1


\* C15: when the load fails (directory, list file, header row) the run has
\* ended with that failure and nothing of the run has happened: no worker
\* was started, no browser session opened, no target handed out,
\* verification was not invoked and completion was not reported.
C15_LoadFailureAbortsRun ==
    failure \in LoadFailures =>
        /\ pc = "failed"
        /\ submitted = 0
        /\ \A w \in Workers :
              /\ wstate[w] = "idle"
              /\ browser[w] = "none"
              /\ holding[w] = NoRecord
        /\ handed = <<>>
        /\ verify_calls = 0
        /\ ~banner

C15_Witness ==
    /\ failure = "header"
    /\ pc = "failed"
    /\ Len(enqueued) >= 1
    /\ config.thread_count >= 2


\* the pool supervisor has raised a worker's failure to its caller
PoolRaised == failure = "worker" /\ config.thread_count # 1

\* the workers of the pool that failed
FailedWorkers == { w \in Pool : wstate[w] = "failed" }

\* C16, as stated: the failure the pool supervisor raises is the one that
\* occurred first in time among the failures of its workers.
C16_RaisesFirstInTime == PoolRaised => raised = first_failed

\* C16, amended: the failure the pool supervisor raises is that of the
\* failed worker with the lowest thread identifier, whenever it occurred.
C16_RaisesLowestFailedId ==
    PoolRaised =>
        /\ raised \in FailedWorkers
        /\ \A w \in FailedWorkers : raised <= w
        /\ first_failed \in FailedWorkers

C16_Witness ==
    /\ PoolRaised
    /\ Cardinality(FailedWorkers) >= 2
    /\ raised = 0
    /\ first_failed = config.thread_count - 1


\* C17: once the loader has returned, every step leaves the queue as it is
\* or takes its head off; no step puts a record on it, and a record that
\* was handed to a worker is not on the queue afterwards, whatever becomes
\* of that worker.
C17_QueueOnlyDrained ==
    [][Imported =>
          /\ \/ url_queue' = url_queue
             \/ url_queue # <<>> /\ url_queue' = Tail(url_queue)
          /\ Len(url_queue') <= Len(url_queue)
          /\ \A i \in DOMAIN url_queue' :
                \A j \in DOMAIN handed' : url_queue'[i].id # handed'[j]]_vars

C17_Witness ==
    /\ url_queue # <<>>
    /\ \E w \in Pool :
          /\ wstate[w] = "failed"
          /\ holding[w] # NoRecord
          /\ \A i \in DOMAIN url_queue : url_queue[i].id # holding[w].id


\* the pool supervisor has joined its workers: the with block is left
Joined == config.thread_count # 1
          /\ pc \in {"results", "verify", "verified", "complete", "failed"}
          /\ failure \notin LoadFailures

\* C18: a worker that failed is the only worker its failure ends: a worker
\* returns normally only after it found the queue empty, so when the pool
\* supervisor has joined its workers and one of them returned normally, the
\* queue is empty, however many of the others failed.
C18_FailureEndsThatWorkerOnly ==
    /\ \A w \in Pool : wstate[w] \in {"closing", "done"} => url_queue = <<>>
    /\ (Joined /\ \E w \in Pool : wstate[w] = "done") => url_queue = <<>>
    /\ Joined => \A w \in Pool : wstate[w] \in Terminated

C18_Witness ==
    /\ Joined
    /\ config.thread_count = 3
    /\ Len(loaded) >= 2
    /\ Cardinality(FailedWorkers) = 2
    /\ \A w \in FailedWorkers : holding[w] # NoRecord
    /\ \E w \in Pool : wstate[w] = "done"
    /\ url_queue = <<>>


\* C19: under fair scheduling every run ends, in completion reported or in
\* a failure at the caller, with every worker it started terminated; every
\* worker that was started terminates, and the join of the pool supervisor
\* is left.
C19_RunEventuallyEnds ==
    /\ <>(/\ Ended
          /\ pc = "complete" => banner
          /\ pc = "failed" => failure # "none"
          /\ Dispatched => \A w \in Pool : wstate[w] \in Terminated)
    /\ \A w \in Workers :
          (wstate[w] # "idle") ~> (wstate[w] \in Terminated)
    /\ (pc = "submit") ~> (pc \in {"results", "verify", "failed"})

C19_Witness ==
    /\ pc = "failed"
    /\ failure = "worker"
    /\ config.thread_count = 3
    /\ \A w \in Pool : wstate[w] = "failed"
    /\ Len(handed) < Len(loaded)


\* how many times a record stands in a queue
Count(queue, rec) == Cardinality({ i \in DOMAIN queue : queue[i] = rec })

\* two queues hold the same records the same number of times
SameRecords(q1, q2) ==
    /\ Len(q1) = Len(q2)
    /\ \A i \in DOMAIN q1 : Count(q1, q1[i]) = Count(q2, q1[i])
    /\ \A i \in DOMAIN q2 : Count(q1, q2[i]) = Count(q2, q2[i])

\* C20: whatever shuffle_queue makes of the records enqueued so far holds
\* the same records the same number of times, and so does the queue the
\* loader returned; without shuffle_base_urls that queue is in the order
\* in which the rows were read.
C20_ShufflePreservesRecords ==
    /\ \A q \in shuffle_queue(enqueued) : SameRecords(q, enqueued)
    /\ Imported =>
          /\ SameRecords(loaded, enqueued)
          /\ ~config.shuffle_base_urls => loaded = enqueued

C20_Witness ==
    /\ Imported
    /\ config.shuffle_base_urls
    /\ Len(enqueued) = 3
    /\ loaded = <<enqueued[3], enqueued[1], enqueued[2]>>

====
